---- MODULE Spec2Model ----
(***************************************************************************)
(* The fs practice scripts of the repository (practice/basic/fs and        *)
(* practice/basic/index.js) as a state machine over a small file tree.     *)
(* Every exported function is one action; a non-blocking function has a    *)
(* start action (the call) and a completion action (the OS call made by    *)
(* the thread pool followed by the callback).  Another process may change  *)
(* the tree between any two steps, and between the existence check and the *)
(* filesystem call of a blocking function.                                 *)
(***************************************************************************)
EXTENDS Integers, Sequences, FiniteSets, TLC

\* ------------------------------------------------------------------ bounds
MaxChunks == 2     \* most writes and appends a file's content is made of
MaxPending == 1    \* non-blocking calls in flight at the same time
MaxNotes == 2      \* notifications of the watcher that wait for the callback
MaxConcurrent == 2 \* non-blocking calls in flight when their interleaving is looked at

\* ------------------------------------------------------------------- paths
parentPath == "./practice/basic/fs"
folderPath == "./practice/basic/fs/file"
readFilePath == "./practice/basic/fs/file/test.txt"
writeFilePath == "./practice/basic/fs/file/write.txt"
filePathForAppendFile == "./practice/basic/fs/file/write.txt"
deleteFilePath == "./practice/basic/fs/file/write.txt"
filePathForWatch == "./practice/basic/fs/file/write.txt"
\* '../basic/fs/file/write.txt' of practice/basic/index.js, run from practice/basic
_file == "./practice/basic/fs/file/write.txt"
subPath == "./practice/basic/fs/file/sub"
nestedPath == "./practice/basic/fs/file/sub/nested.txt"

\* arguments that are no path: the empty string, and a string with a NUL
\* byte in it (written \0 here)
emptyPath == ""
nulPath == "./practice/basic/fs/file/write\\0.txt"
InvalidPaths == {emptyPath, nulPath}

Paths == {parentPath, folderPath, readFilePath, writeFilePath, subPath, nestedPath}
\* the paths the functions name, and the directories above them
NamedPaths == {parentPath, folderPath, readFilePath, writeFilePath}

\* the directory a path lies in; "." is the working directory, which exists
Dirname(p) ==
  CASE p = parentPath -> "."
    [] p = folderPath -> parentPath
    [] p = readFilePath -> folderPath
    [] p = writeFilePath -> folderPath
    [] p = subPath -> folderPath
    [] p = nestedPath -> subPath

RECURSIVE IsUnder(_, _)
IsUnder(p, d) ==
  IF p = "." THEN FALSE
  ELSE Dirname(p) = d \/ IsUnder(Dirname(p), d)

\* ----------------------------------------------------------------- content
\* A file's content is kept as the sequence of the strings written and
\* appended to it; what a reader gets is their concatenation.
writeFileText == "add new line again"
writeFileSyncText == "this are synchronous file with add line"
appendFileText == "\nAppend a new text asynchronously"
Texts == {"a", "b"}          \* the text arguments tried for appendFileSync
ExternalData == {<<>>}        \* the content of a file another process creates

RECURSIVE Flat(_)
Flat(chunks) == IF chunks = <<>> THEN "" ELSE Head(chunks) \o Flat(Tail(chunks))

\* -------------------------------------------------------------- file tree
NoEnt == [kind |-> "none", data |-> <<>>]
DirNode == [kind |-> "dir", data |-> <<>>]
\* a directory the process has no permission to search or read (mode 000)
LockedNode == [kind |-> "locked", data |-> <<>>]
FileNode(d) == [kind |-> "file", data |-> d]

\* what another process may put at a path
NodesAt(p) ==
  CASE p = parentPath -> {DirNode}
    [] p = folderPath -> {DirNode, FileNode(<<>>)}
    [] p = subPath -> {DirNode}
    [] OTHER -> {FileNode(d) : d \in ExternalData}

Present(f, p) == f[p].kind # "none"
IsDir(f, p) == f[p].kind \in {"dir", "locked"}
DirOK(f, d) == d = "." \/ IsDir(f, d)
TreeOK(f) == \A p \in Paths : Present(f, p) => DirOK(f, Dirname(p))
Children(f, d) == {p \in Paths : Dirname(p) = d /\ Present(f, p)}

\* a directory above p cannot be searched: every call on p ends with EACCES
RECURSIVE Denied(_, _)
Denied(f, p) ==
  LET d == Dirname(p)
  IN  IF d = "." THEN FALSE ELSE f[d].kind = "locked" \/ Denied(f, d)

\* errno of a path lookup that does not find p
RECURSIVE LookupErr(_, _)
LookupErr(f, p) ==
  LET d == Dirname(p)
  IN  IF d = "." THEN "ENOENT"
      ELSE IF f[d].kind = "file" THEN "ENOTDIR"
      ELSE IF f[d].kind = "none" THEN LookupErr(f, d)
      ELSE "ENOENT"

\* ------------------------------------------------- the fs calls of Node.js
\* Each call gives [fs: the tree after it, err: "OK" or the errno, ...].
Res(f, e) == [fs |-> f, err |-> e, data |-> "", names |-> {}]

\* Node.js itself turns a string with a NUL byte down, before any system
\* call; the empty string goes to the system, which finds nothing
accessSync(f, p) ==
  IF p = nulPath THEN Res(f, "ERR_INVALID_ARG_VALUE")
  ELSE IF p = emptyPath THEN Res(f, "ENOENT")
  ELSE IF Denied(f, p) THEN Res(f, "EACCES")
  ELSE IF Present(f, p) THEN Res(f, "OK") ELSE Res(f, LookupErr(f, p))

\* true when the path can be reached, false on every error
existsSync(f, p) == p \notin InvalidPaths /\ ~Denied(f, p) /\ Present(f, p)

readFileSync(f, p) ==
  IF Denied(f, p) THEN Res(f, "EACCES")
  ELSE IF f[p].kind = "file" THEN [Res(f, "OK") EXCEPT !.data = Flat(f[p].data)]
  ELSE IF IsDir(f, p) THEN Res(f, "EISDIR")
  ELSE Res(f, LookupErr(f, p))

\* flag 'wx': create, and fail when the path exists
writeFileSync_exclusive(f, p, d) ==
  IF Denied(f, p) THEN Res(f, "EACCES")
  ELSE IF Present(f, p) THEN Res(f, "EEXIST")
  ELSE IF ~DirOK(f, Dirname(p)) THEN Res(f, LookupErr(f, p))
  ELSE Res([f EXCEPT ![p] = FileNode(<<d>>)], "OK")

\* flag 'w': create or truncate
writeFileSync(f, p, d) ==
  IF Denied(f, p) THEN Res(f, "EACCES")
  ELSE IF IsDir(f, p) THEN Res(f, "EISDIR")
  ELSE IF ~DirOK(f, Dirname(p)) THEN Res(f, LookupErr(f, p))
  ELSE Res([f EXCEPT ![p] = FileNode(<<d>>)], "OK")

\* flag 'a': create or extend
fsAppendFileSync(f, p, d) ==
  IF Denied(f, p) THEN Res(f, "EACCES")
  ELSE IF IsDir(f, p) THEN Res(f, "EISDIR")
  ELSE IF ~DirOK(f, Dirname(p)) THEN Res(f, LookupErr(f, p))
  ELSE Res([f EXCEPT ![p] = FileNode(Append(f[p].data, d))], "OK")

unlinkSync(f, p) ==
  IF Denied(f, p) THEN Res(f, "EACCES")
  ELSE IF f[p].kind = "file" THEN Res([f EXCEPT ![p] = NoEnt], "OK")
  ELSE IF IsDir(f, p) THEN Res(f, "EISDIR")
  ELSE Res(f, LookupErr(f, p))

mkdirSync(f, p) ==
  IF Denied(f, p) THEN Res(f, "EACCES")
  ELSE IF Present(f, p) THEN Res(f, "EEXIST")
  ELSE IF ~DirOK(f, Dirname(p)) THEN Res(f, LookupErr(f, p))
  ELSE Res([f EXCEPT ![p] = DirNode], "OK")

\* a listing that takes a regular file for an empty directory
readdir_fileAsEmpty(f, p) ==
  IF Denied(f, p) \/ f[p].kind = "locked" THEN Res(f, "EACCES")
  ELSE IF IsDir(f, p) THEN [Res(f, "OK") EXCEPT !.names = Children(f, p)]
  ELSE IF f[p].kind = "file" THEN Res(f, "OK")
  ELSE Res(f, LookupErr(f, p))

readdir(f, p) ==
  IF Denied(f, p) \/ f[p].kind = "locked" THEN Res(f, "EACCES")
  ELSE IF f[p].kind = "dir" THEN [Res(f, "OK") EXCEPT !.names = Children(f, p)]
  ELSE IF f[p].kind = "file" THEN Res(f, "ENOTDIR")
  ELSE Res(f, LookupErr(f, p))

\* a removal that goes one level deep only
rmdirOneLevel(f, p) ==
  IF Denied(f, p) \/ f[p].kind = "locked" THEN Res(f, "EACCES")
  ELSE IF f[p].kind = "dir"
  THEN Res([q \in Paths |-> IF q = p \/ Dirname(q) = p THEN NoEnt ELSE f[q]], "OK")
  ELSE IF f[p].kind = "file" THEN Res(f, "ENOTDIR")
  ELSE Res(f, LookupErr(f, p))

\* fs.rmdir(path, {recursive: true}, cb): the directory and all below it
rmdirRecursive(f, p) ==
  IF Denied(f, p) \/ f[p].kind = "locked" THEN Res(f, "EACCES")
  ELSE IF f[p].kind = "dir"
  THEN Res([q \in Paths |-> IF q = p \/ IsUnder(q, p) THEN NoEnt ELSE f[q]], "OK")
  ELSE IF f[p].kind = "file" THEN Res(f, "ENOTDIR")
  ELSE Res(f, LookupErr(f, p))

\* ------------------------------------------------------------------- state
VARIABLES
  fs,       \* the file tree: path -> node
  pending,  \* non-blocking calls in flight: function name -> how many
  alive,    \* FALSE once an uncaught exception has ended the process
  last,     \* the step just taken: what was called and what came of it
  watch     \* the watcher of watchFileChanged

vars == <<fs, pending, alive, last, watch>>

\* The watcher that the first call of watchFileChanged makes:
\*   state     "Idle": fs.watch was not called;
\*             "Watching": the FSWatcher follows the file (its inode);
\*             "WatchedPathRemoved": the file was removed, the FSWatcher has
\*             nothing left to follow;
\*             "Cancelled": the caller cancelled the watch
\*   notes     the event types the system has reported and the callback has
\*             not been called with yet, oldest first
\*   names     whether the platform hands the callback a file name
\*   cancelled whether a cancel of the watch has returned
NoWatch == [state |-> "Idle", notes |-> <<>>, names |-> TRUE, cancelled |-> FALSE]

\* a watcher that follows the path: a file made anew at the path is watched
Notified_byPath(w, f, g) ==
  IF w.state = "WatchedPathRemoved" /\ Present(g, filePathForWatch) /\ ~w.cancelled
  THEN [w EXCEPT !.state = "Watching"]
  ELSE IF w.state # "Watching" \/ f[filePathForWatch] = g[filePathForWatch] THEN w
  ELSE IF ~Present(g, filePathForWatch)
  THEN [w EXCEPT !.state = "WatchedPathRemoved", !.notes = Append(@, "rename")]
  ELSE [w EXCEPT !.notes = Append(@, "change")]

\* fs.watch follows the inode: what the watcher is after the tree went from
\* f to g.  A removal is reported as 'rename' and ends the watching, also
\* when a file is made at the path again; a change of content is reported
\* as 'change'.
Notified(w, f, g) ==
  IF w.state # "Watching" \/ f[filePathForWatch] = g[filePathForWatch] THEN w
  ELSE IF ~Present(g, filePathForWatch)
  THEN [w EXCEPT !.state = "WatchedPathRemoved", !.notes = Append(@, "rename")]
  ELSE [w EXCEPT !.notes = Append(@, "change")]

\* every step that changes the tree is seen by the watcher
Watched(f, g) ==
  /\ watch' = Notified(watch, f, g)
  /\ Len(watch'.notes) <= MaxNotes

AsyncOps == {"fileReader", "writeFile", "appendToFile", "readDirectory",
             "removeDirectory", "deleteFileAsync"}

\* the functions that write to the tree
Mutators == {"writeFile", "writeFileAsync", "appendToFile", "appendFileSync",
             "appendFileSyncIndex", "createFolder", "removeDirectory",
             "deleteFileAsync", "deleteFileSync"}

RECURSIVE SumOver(_, _)
SumOver(g, S) ==
  IF S = {} THEN 0
  ELSE LET x == CHOOSE y \in S : TRUE IN g[x] + SumOver(g, S \ {x})

InFlight == SumOver(pending, AsyncOps)
NonePending == [k \in AsyncOps |-> 0]

\* One step as seen from outside.
\*   op    the function ("external" for another process, "init")
\*   phase "return": the call came back to its caller; "throw": it left with
\*         an uncaught exception; "callback": the completion callback of a
\*         non-blocking call ran; "external"; "init"
\*   arg   the argument of the call
\*   pre   the tree before the step
\*   out   "OK", an errno, "PENDING" (a non-blocking call handed to the
\*         thread pool), or the refusal of a guard: "GUARD_ABSENT",
\*         "GUARD_EXISTS"
\*   ret   what the caller received
\*   data  the content logged by a read; names: the entries logged by a list
\*   raced another process changed the tree between the guard and the fs call
\*   after the function whose call or callback was the step before, when that
\*         was one of Mutators and it came back without a race, and
\*         afterOut, its out; else "-"
Event(op, phase, arg, pre, out, ret, data, names, raced) ==
  [op |-> op, phase |-> phase, arg |-> arg, pre |-> pre, out |-> out,
   ret |-> ret, data |-> data, names |-> names, raced |-> raced,
   after |-> "-", afterOut |-> "-"]

Tracked(l) ==
  /\ l.op \in Mutators
  /\ l.phase \in {"return", "callback"}
  /\ l.out # "PENDING"
  /\ ~l.raced

\* every step records itself
Record(e) ==
  last' = [e EXCEPT !.after = IF Tracked(last) THEN last.op ELSE "-",
                    !.afterOut = IF Tracked(last) THEN last.out ELSE "-"]

TreesOver(P) ==
  {f \in [Paths -> UNION {NodesAt(p) \cup {NoEnt} : p \in Paths}] :
     /\ \A p \in Paths : f[p] \in (IF p \in P THEN NodesAt(p) ELSE {}) \cup {NoEnt}
     /\ TreeOK(f)}

InitOver(P) ==
  /\ fs \in TreesOver(P)
  /\ pending = NonePending
  /\ alive = TRUE
  /\ watch = NoWatch
  /\ last = Event("init", "init", "", fs, "OK", "undefined", "", {}, FALSE)

Init == InitOver(NamedPaths)

\* --------------------------------------------------------- other processes
ExternalCreated(f, P) ==
  UNION {{[f EXCEPT ![p] = n] : n \in NodesAt(p)} :
           p \in {q \in P : ~Present(f, q) /\ DirOK(f, Dirname(q))}}

ExternalRemoved(f, P) ==
  {[q \in Paths |-> IF q = p \/ IsUnder(q, p) THEN NoEnt ELSE f[q]] :
     p \in {r \in P : Present(f, r)}}

ExternalSteps(f, P) == ExternalCreated(f, P) \cup ExternalRemoved(f, P)

\* the tree a blocking function finds after its guard: unchanged, or changed
\* by one step of another process
Interfere(f) == {f} \cup ExternalSteps(f, NamedPaths)

ExternalOn(P) ==
  /\ \E g \in ExternalSteps(fs, P) :
       /\ fs' = g
       /\ Watched(fs, g)
       /\ Record(Event("external", "external", "", fs, "OK", "undefined", "", {}, FALSE))
  /\ UNCHANGED <<pending, alive>>

External == ExternalOn(NamedPaths)

\* ------------------------------------------------------ existence checks
\* a slip in the catch branch: true where false is meant
fileExistCheck_catchTrue(f, filePath) ==
  IF accessSync(f, filePath).err = "OK" THEN TRUE ELSE TRUE

fileExistCheck(f, filePath) ==
  IF accessSync(f, filePath).err = "OK" THEN TRUE ELSE FALSE

directoryExist(f, dir) ==
  IF existsSync(f, dir) THEN TRUE ELSE FALSE

BoolStr(b) == IF b THEN "true" ELSE "false"

CallFileExistCheck ==
  /\ alive
  /\ \E p \in NamedPaths :
       Record(Event("fileExistCheck", "return", p, fs, "OK",
                    BoolStr(fileExistCheck(fs, p)), "", {}, FALSE))
  /\ UNCHANGED <<fs, pending, alive, watch>>

CallDirectoryExist ==
  /\ alive
  /\ \E p \in Paths :
       Record(Event("directoryExist", "return", p, fs, "OK",
                    BoolStr(directoryExist(fs, p)), "", {}, FALSE))
  /\ UNCHANGED <<fs, pending, alive, watch>>

\* the same two calls with any argument, the outcome being what the fs call
\* under them came to
CallFileExistCheckRaw ==
  /\ alive
  /\ \E p \in Paths \cup InvalidPaths :
       Record(Event("fileExistCheck", "return", p, fs, accessSync(fs, p).err,
                    BoolStr(fileExistCheck(fs, p)), "", {}, FALSE))
  /\ UNCHANGED <<fs, pending, alive, watch>>

CallDirectoryExistRaw ==
  /\ alive
  /\ \E p \in Paths \cup InvalidPaths :
       Record(Event("directoryExist", "return", p, fs, accessSync(fs, p).err,
                    BoolStr(directoryExist(fs, p)), "", {}, FALSE))
  /\ UNCHANGED <<fs, pending, alive, watch>>

\* ------------------------------------------------------------ helper steps
\* What a blocking function comes to: the tree it leaves, its outcome, what
\* it logged, whether it left with an uncaught exception, and whether another
\* process changed the tree between its guard and its fs call.
Caught(r, raced) ==
  [fs |-> r.fs, out |-> r.err, data |-> r.data, names |-> r.names,
   threw |-> FALSE, raced |-> raced]

Uncaught(r, raced) ==
  [fs |-> r.fs, out |-> r.err, data |-> r.data, names |-> r.names,
   threw |-> r.err # "OK", raced |-> raced]

Refused(f, why) ==
  [fs |-> f, out |-> why, data |-> "", names |-> {}, threw |-> FALSE, raced |-> FALSE]

FitsTree(f) == \A p \in Paths : Len(f[p].data) <= MaxChunks

\* The call of a blocking function.  Every function of the source ends
\* without a return value or returns that of an fs call, which is undefined;
\* an uncaught exception ends the process.
Call(op, arg, c) ==
  /\ FitsTree(c.fs)
  /\ fs' = c.fs
  /\ Watched(fs, c.fs)
  /\ IF c.threw
     THEN /\ alive' = FALSE
          /\ pending' = NonePending
          /\ Record(Event(op, "throw", arg, fs, c.out, "none", "", {}, c.raced))
     ELSE /\ Record(Event(op, "return", arg, fs, c.out, "undefined", c.data,
                          c.names, c.raced))
          /\ UNCHANGED <<pending, alive>>

\* a non-blocking call handed to the thread pool, fewer than n being there
StartUnder(op, n) ==
  /\ InFlight < n
  /\ pending' = [pending EXCEPT ![op] = @ + 1]
  /\ Record(Event(op, "return", "", fs, "PENDING", "undefined", "", {}, FALSE))
  /\ UNCHANGED <<fs, alive, watch>>

Start(op) == StartUnder(op, MaxPending)

\* the thread pool makes the fs call and the callback, which logs, runs
Complete(op, r) ==
  /\ alive
  /\ pending[op] > 0
  /\ FitsTree(r.fs)
  /\ pending' = [pending EXCEPT ![op] = @ - 1]
  /\ fs' = r.fs
  /\ Watched(fs, r.fs)
  /\ Record(Event(op, "callback", "", fs, r.err, "undefined", r.data, r.names, FALSE))
  /\ UNCHANGED alive

\* ------------------------------------------------------------ read a file
\* fs.readFile(readFilePath, "utf-8", cb); the callback logs err or data
fileReader == alive /\ Start("fileReader")

fileReaderDone == Complete("fileReader", readFileSync(fs, readFilePath))

\* try { fs.readFileSync(readFilePath, "utf-8") } catch (er) { console.log }
fileReadAsyncOn(f) == Caught(readFileSync(f, readFilePath), FALSE)

fileReadAsync == alive /\ Call("fileReadAsync", "", fileReadAsyncOn(fs))

\* ----------------------------------------------------------- write a file
writeFile == alive /\ Start("writeFile")

\* a slip in the path constant: the text goes to the file that is read
writeFileDone_readPath ==
  Complete("writeFile", writeFileSync(fs, readFilePath, writeFileText))

writeFileDone == Complete("writeFile", writeFileSync(fs, writeFilePath, writeFileText))

\* a slip in the path constant: the text goes to the file that is read
writeFileAsyncOn_readPath(f) ==
  Caught(writeFileSync(f, readFilePath, writeFileSyncText), FALSE)

writeFileAsyncOn(f) == Caught(writeFileSync(f, writeFilePath, writeFileSyncText), FALSE)

writeFileAsync == alive /\ Call("writeFileAsync", "", writeFileAsyncOn(fs))

\* -------------------------------------------------------- append to a file
appendToFile == alive /\ Start("appendToFile")

\* an append that opens the file with flag 'w'
appendToFileDone_truncates ==
  Complete("appendToFile", writeFileSync(fs, writeFilePath, appendFileText))

appendToFileDone ==
  Complete("appendToFile", fsAppendFileSync(fs, writeFilePath, appendFileText))

\* a slip in the template literal: the newline after the text
appendFileSyncOn_newlineAfter(f, mid, text) ==
  LET filePathExist == fileExistCheck(f, filePathForAppendFile)
  IN  IF filePathExist
      THEN Caught(fsAppendFileSync(mid, filePathForAppendFile, text \o "\n"), mid # f)
      ELSE Refused(f, "GUARD_ABSENT")

\* practice/basic/fs: guarded by fileExistCheck, the append inside try/catch;
\* mid is the tree at the time of the append
appendFileSyncOn(f, mid, text) ==
  LET filePathExist == fileExistCheck(f, filePathForAppendFile)
  IN  IF filePathExist
      THEN Caught(fsAppendFileSync(mid, filePathForAppendFile, "\n" \o text), mid # f)
      ELSE Refused(f, "GUARD_ABSENT")

appendFileSync ==
  /\ alive
  /\ \E text \in Texts, mid \in Interfere(fs) :
       Call("appendFileSync", text, appendFileSyncOn(fs, mid, text))

\* practice/basic/index.js: no guard, the append inside try/catch
appendFileSyncIndexOn(f, text) ==
  Caught(fsAppendFileSync(f, _file, "\n" \o text), FALSE)

appendFileSyncIndex ==
  /\ alive
  /\ \E text \in Texts :
       Call("appendFileSyncIndex", text, appendFileSyncIndexOn(fs, text))

\* ------------------------------------------------------------- directories
\* without the guard and with mkdirSync(folderPath, {recursive: true}), which
\* finds nothing wrong with a directory that is there
createFolderOn_recursive(f, mid) ==
  IF mid[folderPath].kind = "dir"
  THEN Uncaught(Res(mid, "OK"), mid # f)
  ELSE Uncaught(mkdirSync(mid, folderPath), mid # f)

\* if (directoryExist(folderPath)) return; else fs.mkdirSync(folderPath): no
\* try/catch around mkdirSync
createFolderOn(f, mid) ==
  LET directory == directoryExist(f, folderPath)
  IN  IF directory
      THEN Refused(f, "GUARD_EXISTS")
      ELSE Uncaught(mkdirSync(mid, folderPath), mid # f)

createFolder ==
  /\ alive
  /\ \E mid \in Interfere(fs) : Call("createFolder", "", createFolderOn(fs, mid))

readDirectory ==
  /\ alive
  /\ LET isFolderPath == directoryExist(fs, folderPath)
     IN  IF isFolderPath
         THEN Start("readDirectory")
         ELSE Call("readDirectory", "", Refused(fs, "GUARD_ABSENT"))

readDirectoryDone == Complete("readDirectory", readdir(fs, folderPath))

\* the guard left out: the removal is handed over whatever is at folderPath
removeDirectory_noGuard ==
  /\ alive
  /\ Start("removeDirectory")

removeDirectory ==
  /\ alive
  /\ LET isDirectoryExist == directoryExist(fs, folderPath)
     IN  IF isDirectoryExist
         THEN Start("removeDirectory")
         ELSE Call("removeDirectory", "", Refused(fs, "GUARD_ABSENT"))

removeDirectoryDone == Complete("removeDirectory", rmdirRecursive(fs, folderPath))

\* ----------------------------------------------------------- delete a file
deleteFileAsync ==
  /\ alive
  /\ LET isfile == fileExistCheck(fs, writeFilePath)
     IN  IF isfile
         THEN Start("deleteFileAsync")
         ELSE Call("deleteFileAsync", "", Refused(fs, "GUARD_ABSENT"))

\* a slip in the path constant: the file that is read is the one unlinked
deleteFileAsyncDone_readPath == Complete("deleteFileAsync", unlinkSync(fs, readFilePath))

deleteFileAsyncDone == Complete("deleteFileAsync", unlinkSync(fs, writeFilePath))

\* a slip in the path: the guard looks at deleteFilePath, the call unlinks
\* the file that is read
deleteFileSyncOn_readPath(f, mid) ==
  LET isFile == fileExistCheck(f, deleteFilePath)
  IN  IF isFile
      THEN Uncaught(unlinkSync(mid, readFilePath), mid # f)
      ELSE Refused(f, "GUARD_ABSENT")

\* the guard left out
deleteFileSyncOn_noGuard(f, mid) ==
  Uncaught(unlinkSync(mid, deleteFilePath), mid # f)

\* if (fileExistCheck(deleteFilePath)) fs.unlinkSync(deleteFilePath): no try/catch
deleteFileSyncOn(f, mid) ==
  LET isFile == fileExistCheck(f, deleteFilePath)
  IN  IF isFile
      THEN Uncaught(unlinkSync(mid, deleteFilePath), mid # f)
      ELSE Refused(f, "GUARD_ABSENT")

deleteFileSync ==
  /\ alive
  /\ \E mid \in Interfere(fs) : Call("deleteFileSync", "", deleteFileSyncOn(fs, mid))

\* ------------------------------------------------------------ watch a file
\* fs.watch(path, listener) looks the path up and throws what the lookup gives
fsWatch(f, p) == accessSync(f, p)

\* const fi = fs.watch(filePathForWatch, listener); return fi: no try/catch.
\* The model follows the watcher of the first call.
watchFileChanged ==
  /\ alive
  /\ watch.state = "Idle"
  /\ LET r == fsWatch(fs, filePathForWatch)
     IN  IF r.err = "OK"
         THEN /\ \E n \in BOOLEAN :
                   watch' = [state |-> "Watching", notes |-> <<>>, names |-> n,
                             cancelled |-> FALSE]
              /\ Record(Event("watchFileChanged", "return", "", fs, "OK", "FSWatcher",
                              "", {}, FALSE))
              /\ UNCHANGED <<fs, pending, alive>>
         ELSE /\ alive' = FALSE
              /\ pending' = NonePending
              /\ Record(Event("watchFileChanged", "throw", "", fs, r.err, "none",
                              "", {}, FALSE))
              /\ UNCHANGED <<fs, watch>>

\* the test for the file name left out
Listener_always(eventType, fileName) == "File " \o fileName \o " has " \o eventType

\* what the listener logs: File ${fileName} has ${eventType}, if (fileName)
Listener(eventType, fileName) ==
  IF fileName # "" THEN "File " \o fileName \o " has " \o eventType ELSE ""

\* the event loop calls the listener with the oldest notification
watchCallback ==
  /\ alive
  /\ watch.notes # <<>>
  /\ LET eventType == Head(watch.notes)
         fileName == IF watch.names THEN "write.txt" ELSE ""
     IN  /\ watch' = [watch EXCEPT !.notes = Tail(@)]
         /\ Record(Event("watchCallback", "callback", eventType, fs, "OK",
                         "undefined", Listener(eventType, fileName), {}, FALSE))
  /\ UNCHANGED <<fs, pending, alive>>

\* a cancel that is noted and stops nothing
cancelOn_flagOnly(w) == [w EXCEPT !.cancelled = TRUE]

\* a cancel that takes a cancelled watch up again
cancelOn_toggle(w) ==
  [w EXCEPT !.state = IF @ = "Watching" THEN "Cancelled"
                      ELSE IF @ = "Cancelled" THEN "Watching" ELSE @,
            !.notes = <<>>,
            !.cancelled = TRUE]

\* cancel(subscription): stops delivery; a no-op after the first cancellation
\* and on a watch that the removal of its path has ended
cancelOn(w) ==
  [w EXCEPT !.state = IF @ = "Watching" THEN "Cancelled" ELSE @,
            !.notes = <<>>,
            !.cancelled = TRUE]

cancel ==
  /\ alive
  /\ watch.state # "Idle"
  /\ watch' = cancelOn(watch)
  /\ Record(Event("cancel", "return", watch.state, fs, "OK", "undefined", "", {}, FALSE))
  /\ UNCHANGED <<fs, pending, alive>>

\* another process rewrites the watched file: one more chunk, or none at all
ExternalModified(f) ==
  IF f[filePathForWatch].kind # "file" THEN {}
  ELSE {[f EXCEPT ![filePathForWatch] = FileNode(d)] :
          d \in {Append(f[filePathForWatch].data, "x"), <<>>} \ {f[filePathForWatch].data}}

ExternalModify ==
  /\ \E g \in ExternalModified(fs) :
       /\ FitsTree(g)
       /\ fs' = g
       /\ Watched(fs, g)
       /\ Record(Event("modify", "external", "", fs, "OK", "undefined", "", {}, FALSE))
  /\ UNCHANGED <<pending, alive>>

\* ---------------------------------------------------------- specifications
\* the functions at work on the paths they name
Next ==
  \/ External
  \/ CallFileExistCheck
  \/ CallDirectoryExist
  \/ fileReader
  \/ fileReaderDone
  \/ fileReadAsync
  \/ writeFile
  \/ writeFileDone
  \/ writeFileAsync
  \/ appendToFile
  \/ appendToFileDone
  \/ appendFileSync
  \/ appendFileSyncIndex
  \/ createFolder
  \/ readDirectory
  \/ readDirectoryDone
  \/ removeDirectory
  \/ removeDirectoryDone
  \/ deleteFileAsync
  \/ deleteFileAsyncDone
  \/ deleteFileSync

Spec == Init /\ [][Next]_vars

\* the directory functions on a folder with a subdirectory below it
InitTree == InitOver(Paths)

ExternalTree == ExternalOn(Paths)

NextTree ==
  \/ ExternalTree
  \/ CallDirectoryExist
  \/ createFolder
  \/ readDirectory
  \/ readDirectoryDone
  \/ removeDirectory
  \/ removeDirectoryDone

SpecTree == InitTree /\ [][NextTree]_vars

\* The existence checks on a tree where another user takes away, and gives
\* back, the permission to search a directory (chmod 000 / chmod 755).
Chmod(f) ==
  {[f EXCEPT ![d] = LockedNode] : d \in {q \in {parentPath, folderPath} : f[q].kind = "dir"}}
    \cup {[f EXCEPT ![d] = DirNode] : d \in {q \in {parentPath, folderPath} : f[q].kind = "locked"}}

InitPerm ==
  /\ fs \in TreesOver(NamedPaths) \cup UNION {Chmod(f) : f \in TreesOver(NamedPaths)}
  /\ pending = NonePending
  /\ alive = TRUE
  /\ watch = NoWatch
  /\ last = Event("init", "init", "", fs, "OK", "undefined", "", {}, FALSE)

ExternalChmod ==
  /\ \E g \in Chmod(fs) :
       /\ fs' = g
       /\ Record(Event("chmod", "external", "", fs, "OK", "undefined", "", {}, FALSE))
  /\ UNCHANGED <<pending, alive, watch>>

NextPerm ==
  \/ External
  \/ ExternalChmod
  \/ CallFileExistCheck
  \/ CallDirectoryExist

SpecPerm == InitPerm /\ [][NextPerm]_vars

\* The non-blocking functions, several of them in flight at a time.
fileReaderConc == alive /\ StartUnder("fileReader", MaxConcurrent)
writeFileConc == alive /\ StartUnder("writeFile", MaxConcurrent)

\* an append is started only when the file will have room for it whichever
\* of the calls in flight completes before it
RoomToAppend ==
  LET len == Len(fs[writeFilePath].data)
  IN  pending["appendToFile"] + (IF len = 0 THEN 1 ELSE len) < MaxChunks

appendToFileConc ==
  /\ alive
  /\ RoomToAppend
  /\ StartUnder("appendToFile", MaxConcurrent)

readDirectoryConc ==
  /\ alive
  /\ IF directoryExist(fs, folderPath)
     THEN StartUnder("readDirectory", MaxConcurrent)
     ELSE Call("readDirectory", "", Refused(fs, "GUARD_ABSENT"))

removeDirectoryConc ==
  /\ alive
  /\ IF directoryExist(fs, folderPath)
     THEN StartUnder("removeDirectory", MaxConcurrent)
     ELSE Call("removeDirectory", "", Refused(fs, "GUARD_ABSENT"))

deleteFileAsyncConc ==
  /\ alive
  /\ IF fileExistCheck(fs, writeFilePath)
     THEN StartUnder("deleteFileAsync", MaxConcurrent)
     ELSE Call("deleteFileAsync", "", Refused(fs, "GUARD_ABSENT"))

NextConc ==
  \/ fileReaderConc
  \/ fileReaderDone
  \/ writeFileConc
  \/ writeFileDone
  \/ appendToFileConc
  \/ appendToFileDone
  \/ readDirectoryConc
  \/ readDirectoryDone
  \/ removeDirectoryConc
  \/ removeDirectoryDone
  \/ deleteFileAsyncConc
  \/ deleteFileAsyncDone

SpecConc == Init /\ [][NextConc]_vars

\* The same, with a caller that goes on to make and to delete while calls
\* are in flight; the thread pool and the event loop of Node.js run every
\* completion that is due.
NextCaller ==
  \/ NextConc
  \/ createFolder
  \/ deleteFileSync

Completion ==
  /\ WF_vars(fileReaderDone)
  /\ WF_vars(writeFileDone)
  /\ WF_vars(appendToFileDone)
  /\ WF_vars(readDirectoryDone)
  /\ WF_vars(removeDirectoryDone)
  /\ WF_vars(deleteFileAsyncDone)

SpecConcFair == Init /\ [][NextConc]_vars /\ Completion

SpecCallerFair == Init /\ [][NextCaller]_vars /\ Completion

\* The existence checks, called with what their caller likes.
NextPath ==
  \/ External
  \/ CallFileExistCheckRaw
  \/ CallDirectoryExistRaw

SpecPath == Init /\ [][NextPath]_vars

\* The watcher, the functions that write and remove the file it watches,
\* and other processes that do the same.
WatchPaths == {parentPath, folderPath, writeFilePath}
InitWatch == InitOver(WatchPaths)
ExternalWatch == ExternalOn(WatchPaths)

NextWatch ==
  \/ ExternalWatch
  \/ ExternalModify
  \/ watchFileChanged
  \/ watchCallback
  \/ cancel
  \/ writeFileAsync
  \/ deleteFileSync

SpecWatch == InitWatch /\ [][NextWatch]_vars

\* the event loop of Node.js runs a callback that is due
SpecWatchFair == SpecWatch /\ WF_vars(watchCallback)

TypeOK ==
  /\ TreeOK(fs)
  /\ FitsTree(fs)
  /\ InFlight <= MaxPending \/ InFlight <= MaxConcurrent
  /\ alive \in BOOLEAN
  /\ Len(watch.notes) <= MaxNotes
  /\ watch.state \in {"Idle", "Watching", "WatchedPathRemoved", "Cancelled"}
  /\ (watch.state = "Watching") => (fs[filePathForWatch].kind = "file")

\* ------------------------------------------------------------------ claims
\* The failure kinds of the specification (section 7).  A path that is not
\* there, a path below something that is no directory, and a guard that finds
\* nothing are NotFound; an entry in the way is AlreadyExists.
Kind(out) ==
  CASE out = "OK" -> "Success"
    [] out = "PENDING" -> "Pending"
    [] out \in {"ENOENT", "ENOTDIR", "GUARD_ABSENT"} -> "NotFound"
    [] out \in {"EEXIST", "GUARD_EXISTS"} -> "AlreadyExists"
    [] out \in {"EACCES", "EPERM"} -> "AccessDenied"
    [] out = "ERR_INVALID_ARG_VALUE" -> "InvalidPath"
    [] OTHER -> "IOFailure"

FailureKinds == {"NotFound", "AlreadyExists", "AccessDenied", "IOFailure"}

\* the step just taken is a call that has come to its end
Finished(l) == l.phase \in {"return", "callback", "throw"} /\ l.out # "PENDING"

AppendOps == {"appendToFile", "appendFileSync", "appendFileSyncIndex"}
ReadOps == {"fileReader", "fileReadAsync"}

\* C1 (as claimed): an append whose target does not exist before the call
\* fails with NotFound and leaves the path absent.
C1_AppendNeverCreates ==
  (last.op \in AppendOps /\ Finished(last) /\ ~Present(last.pre, writeFilePath))
    => (Kind(last.out) = "NotFound" /\ ~Present(fs, writeFilePath))

Written(l) ==
  CASE l.after = "writeFileAsync" -> writeFileSyncText
    [] l.after = "writeFile" -> writeFileText
    [] OTHER -> ""

TwoAppends ==
  /\ last'.op \in {"appendFileSync", "appendFileSyncIndex"}
  /\ last'.after \in {"appendFileSync", "appendFileSyncIndex"}
  /\ last'.afterOut = "OK"
  /\ last'.out = "OK"
  /\ ~last'.raced
  /\ last.pre[writeFilePath].kind = "file"

C4_AbsentReadAndExists ==
  /\ (last.op \in ReadOps /\ Finished(last) /\ ~Present(last.pre, readFilePath))
       => (Kind(last.out) = "NotFound" /\ last.data = "" /\ fs = last.pre)
  /\ (last.op = "fileExistCheck" /\ ~Present(last.pre, last.arg))
       => (last.ret = "false" /\ last.phase = "return" /\ fs = last.pre)
  /\ \A p \in Paths : ~Present(fs, p) => ~fileExistCheck(fs, p)

C4_Witness ==
  /\ last.op = "fileReader"
  /\ last.phase = "callback"
  /\ ~Present(last.pre, readFilePath)
  /\ last.out = "ENOENT"
  /\ ~fileExistCheck(fs, readFilePath)

\* C5 (as claimed): a call whose fs call failed, or whose guard refused,
\* hands that failure to its caller as a typed result.
C5_FailureSurfaced ==
  (last.phase \in {"return", "callback"} /\ Kind(last.out) \in FailureKinds)
    => last.ret = Kind(last.out)

\* C6 (as claimed): no call leaves with an uncaught exception, and the
\* process is there for the next call.
C6_NoFailureFatal == alive /\ last.phase # "throw"

\* the tree without the texts: what is where, and of how many writes
Shape(f) == [p \in Paths |-> <<f[p].kind, Len(f[p].data)>>]

\* the blocking form of a non-blocking function, on a tree no other process
\* touches
BlockingForm(op, f, text) ==
  CASE op = "fileReader" -> fileReadAsyncOn(f)
    [] op = "writeFile" -> writeFileAsyncOn(f)
    [] op = "appendToFile" -> appendFileSyncOn(f, f, text)
    [] op = "deleteFileAsync" -> deleteFileSyncOn(f, f)

\* the step ends a non-blocking call that no other step came between: the
\* callback directly after the call, or the call that its guard refused
UndisturbedEnd ==
  /\ last'.op \in {"fileReader", "writeFile", "appendToFile", "deleteFileAsync"}
  /\ \/ last'.phase = "callback" /\ last.op = last'.op /\ last.out = "PENDING"
     \/ last'.phase = "return" /\ last'.out # "PENDING"

\* C7 (as claimed): from the same tree, the non-blocking and the blocking
\* form of read, write, append and delete report the same kind of outcome and
\* leave the same tree (up to the text each writes).
C7_FormsEquivalent ==
  [][UndisturbedEnd =>
       \A text \in Texts :
         LET c == BlockingForm(last'.op, last'.pre, text)
         IN  /\ Kind(c.out) = Kind(last'.out)
             /\ Shape(c.fs) = Shape(fs')]_vars

\* C8: createFolder on a path where a file or a directory is refuses with
\* AlreadyExists and changes nothing; so does the second of two createFolder
\* calls in a row.
C8_CreateRefusesExisting ==
  /\ (last.op = "createFolder" /\ Present(last.pre, folderPath))
       => (Kind(last.out) = "AlreadyExists" /\ last.phase = "return" /\ fs = last.pre)
  /\ (last.op = "createFolder" /\ last.after = "createFolder")
       => (Kind(last.out) = "AlreadyExists" /\ last.phase = "return" /\ fs = last.pre)

C8_Witness ==
  /\ last.op = "createFolder"
  /\ last.after = "createFolder"
  /\ last.afterOut = "OK"
  /\ last.out = "GUARD_EXISTS"
  /\ fs[folderPath].kind = "dir"

\* C9 (as claimed): createFolder on a path where nothing is succeeds (no
\* other process being in its way), the path is a directory afterwards, and
\* listing it gives no entry.
C9_CreateThenList ==
  (last.op = "createFolder" /\ Finished(last) /\ ~last.raced
   /\ ~Present(last.pre, folderPath))
    => /\ last.out = "OK"
       /\ fs[folderPath].kind = "dir"
       /\ readdir(fs, folderPath).err = "OK"
       /\ readdir(fs, folderPath).names = {}

\* C10: once removeDirectory's callback has reported success, neither the
\* folder nor anything that was below it exists.
C10_RemovedTreeGone ==
  (last.op = "removeDirectory" /\ last.phase = "callback" /\ last.out = "OK")
    => \A p \in Paths :
         (p = folderPath \/ IsUnder(p, folderPath))
           => (~Present(fs, p) /\ ~fileExistCheck(fs, p) /\ ~directoryExist(fs, p))

C10_Witness ==
  /\ last.op = "removeDirectory"
  /\ last.phase = "callback"
  /\ last.out = "OK"
  /\ Present(last.pre, nestedPath)
  /\ Present(last.pre, readFilePath)
  /\ ~Present(fs, nestedPath)

DeleteOps == {"deleteFileSync", "deleteFileAsync"}

\* the functions that can bring a file into being at writeFilePath
CreateOps == {"writeFile", "writeFileAsync", "appendToFile", "appendFileSyncIndex"}

C12_RemoveAbsent ==
  /\ (last.op \in DeleteOps /\ Finished(last) /\ ~Present(last.pre, deleteFilePath))
       => /\ Kind(last.out) = "NotFound"
          /\ fs = last.pre
          /\ last.phase # "throw"
          /\ alive
  /\ (last.op \in DeleteOps /\ Finished(last) /\ last.after \in DeleteOps
      /\ last.afterOut = "OK")
       => /\ Kind(last.out) = "NotFound"
          /\ last.phase # "throw"

C12_Witness ==
  /\ last.op = "deleteFileSync"
  /\ last.after = "deleteFileSync"
  /\ last.afterOut = "OK"
  /\ last.out = "GUARD_ABSENT"
  /\ fs = last.pre

ExistOps == {"fileExistCheck", "directoryExist"}

\* C13 (as claimed): fileExistCheck and directoryExist return true exactly
\* when an entry that can be reached is at the path, return false when nothing
\* is there, and when the lookup is denied (EACCES) they report a failure, not
\* false.
C13_ExistsSurfacesDenied ==
  last.op \in ExistOps
    => /\ (last.ret = "true")
            = (Present(last.pre, last.arg) /\ ~Denied(last.pre, last.arg))
       /\ (~Present(last.pre, last.arg) /\ ~Denied(last.pre, last.arg))
            => (last.ret = "false" /\ last.phase = "return")
       /\ Denied(last.pre, last.arg) => last.ret \notin {"true", "false"}

\* C14: readDirectory ends with NotFound, and logs no names, whenever
\* folderPath is not a directory, be it absent or a regular file; it logs
\* names, those of the entries, only when folderPath is a directory.
C14_ListOnlyDirectory ==
  /\ (last.op = "readDirectory" /\ Finished(last) /\ last.pre[folderPath].kind # "dir")
       => /\ Kind(last.out) = "NotFound"
          /\ last.names = {}
          /\ fs = last.pre
  /\ (last.op = "readDirectory" /\ last.out = "OK")
       => /\ last.pre[folderPath].kind = "dir"
          /\ last.names = Children(last.pre, folderPath)

C14_Witness ==
  /\ last.op = "readDirectory"
  /\ last.phase = "callback"
  /\ last.pre[folderPath].kind = "file"
  /\ last.out = "ENOTDIR"

\* C15: removeDirectory called while nothing is at folderPath ends with
\* NotFound, without an exception, and leaves the tree as it was; a removal
\* whose callback finds the folder gone changes nothing either.
C15_RemoveAbsentFolder ==
  /\ (last.op = "removeDirectory" /\ last.phase \in {"return", "throw"}
      /\ ~Present(last.pre, folderPath))
       => /\ Kind(last.out) = "NotFound"
          /\ last.phase = "return"
          /\ fs = last.pre
  /\ (last.op = "removeDirectory" /\ last.phase = "callback"
      /\ ~Present(last.pre, folderPath))
       => fs = last.pre

C15_Witness ==
  /\ last.op = "removeDirectory"
  /\ last.phase = "return"
  /\ last.out = "GUARD_ABSENT"
  /\ ~Present(last.pre, folderPath)
  /\ Present(last.pre, parentPath)
  /\ fs = last.pre

C17_NoEventAfterCancel ==
  watch.cancelled => (last.op # "watchCallback" /\ watch.notes = <<>>)

C17_Witness ==
  /\ watch.cancelled
  /\ watch.state = "Cancelled"
  /\ last.op = "modify"
  /\ last.pre[filePathForWatch] # fs[filePathForWatch]

\* C18: a cancel of a watch that was cancelled before raises nothing and
\* leaves the watch, and everything else, as it was.
C18_CancelIdempotent ==
  [][(last'.op = "cancel" /\ watch.cancelled)
       => /\ watch' = watch
          /\ last'.out = "OK"
          /\ last'.phase = "return"
          /\ alive'
          /\ fs' = fs]_vars

C18_Witness ==
  /\ last.op = "cancel"
  /\ last.arg = "Cancelled"
  /\ watch.state = "Cancelled"
  /\ alive

\* C19 (as claimed): watchFileChanged called while nothing is at
\* filePathForWatch ends with NotFound, makes no watch, and returns to its
\* caller instead of raising an exception.
C19_StartAbsentFails ==
  (last.op = "watchFileChanged" /\ ~Present(last.pre, filePathForWatch))
    => /\ Kind(last.out) = "NotFound"
       /\ watch.state = "Idle"
       /\ watch.notes = <<>>
       /\ last.phase = "return"
       /\ alive

ChangeWaits == \E i \in 1..Len(watch.notes) : watch.notes[i] = "change"

\* C20 (as claimed): while the file is watched, a change of its content is
\* followed, in the end, by a call of the listener with 'change', unless the
\* watch is cancelled before.
C20_ModifiedDelivered ==
  (watch.state = "Watching" /\ ChangeWaits)
    ~> \/ (last.op = "watchCallback" /\ last.arg = "change")
       \/ watch.cancelled

EventTypes == {"change", "rename"}

\* the listener is called with the oldest notification that waits, which
\* leaves the queue, and a step of anything else but a cancel leaves the queue
\* as it is or puts one notification at its end
InOrder ==
  /\ (last'.op = "watchCallback")
       => /\ watch.notes # <<>>
          /\ last'.arg = Head(watch.notes)
          /\ watch'.notes = Tail(watch.notes)
  /\ (last'.op \notin {"watchCallback", "cancel"})
       => \/ watch'.notes = watch.notes
          \/ \E e \in EventTypes : watch'.notes = Append(watch.notes, e)

\* C21 (as claimed): the listener gets the notifications of the watched file
\* in the order they were made, each one once, none merged and none dropped:
\* when the process has ended, none is left that the listener did not get.
C21_OrderedNoneDropped ==
  /\ [][InOrder]_vars
  /\ [](~alive => watch.notes = <<>>)

WriteOps == {"writeFile", "writeFileAsync"}

C23_InvalidPathRejected ==
  (last.op \in ExistOps /\ last.arg \in InvalidPaths)
    => /\ Kind(last.out) = "InvalidPath"
       /\ last.ret \notin {"true", "false"}

\* the path a non-blocking function works on, and what its fs call comes to
\* on a tree
Target(op) ==
  CASE op = "fileReader" -> readFilePath
    [] op \in {"writeFile", "appendToFile", "deleteFileAsync"} -> writeFilePath
    [] op \in {"readDirectory", "removeDirectory"} -> folderPath

Outcome(op, f) ==
  CASE op = "fileReader" -> readFileSync(f, readFilePath)
    [] op = "writeFile" -> writeFileSync(f, writeFilePath, writeFileText)
    [] op = "appendToFile" -> fsAppendFileSync(f, writeFilePath, appendFileText)
    [] op = "readDirectory" -> readdir(f, folderPath)
    [] op = "removeDirectory" -> rmdirRecursive(f, folderPath)
    [] op = "deleteFileAsync" -> unlinkSync(f, writeFilePath)

Reported(r) == <<r.err, r.data, r.names>>

\* the step is the completion of a non-blocking function
Completes == last'.op \in AsyncOps /\ last'.phase = "callback"

\* a completion leaves every path alone that is neither its own nor below it
FrameOfCompletion ==
  Completes
    => \A q \in Paths :
         (q # Target(last'.op) /\ ~IsUnder(q, Target(last'.op))) => fs'[q] = fs[q]

\* C24 (as claimed): the completion of a non-blocking function on q changes
\* no path that is neither q nor below q, and changes nothing in what a
\* function in flight on p will report, q being neither p nor below p.
C24_Independent ==
  [][/\ FrameOfCompletion
     /\ \A A \in AsyncOps :
          (/\ Completes
           /\ pending'[A] > 0
           /\ Target(last'.op) # Target(A)
           /\ ~IsUnder(Target(last'.op), Target(A)))
            => Reported(Outcome(A, fs')) = Reported(Outcome(A, fs))]_vars

\* C24 (amended): the same, q being neither p, nor below p, nor above p.
C24_IndependentUnrelated ==
  [][/\ FrameOfCompletion
     /\ \A A \in AsyncOps :
          (/\ Completes
           /\ pending'[A] > 0
           /\ Target(last'.op) # Target(A)
           /\ ~IsUnder(Target(last'.op), Target(A))
           /\ ~IsUnder(Target(A), Target(last'.op)))
            => Reported(Outcome(A, fs')) = Reported(Outcome(A, fs))]_vars

\* deleteFileAsync has removed write.txt while fileReader is in flight
C24_Witness ==
  /\ last.op = "deleteFileAsync"
  /\ last.phase = "callback"
  /\ last.out = "OK"
  /\ pending["fileReader"] > 0
  /\ fs # last.pre
  /\ fs[readFilePath] = last.pre[readFilePath]
  /\ fs[readFilePath].kind = "file"

\* the step is the completion of op, with success, and the step before it
\* was the completion of before, with success: both were in flight together
CompletedAfter(op, before) ==
  /\ last.op = op
  /\ last.phase = "callback"
  /\ last.out = "OK"
  /\ last.after = before
  /\ last.afterOut = "OK"

\* C25: writeFile and appendToFile in flight together complete in either
\* order, and the order decides what write.txt holds: the text written and
\* the text appended when appendToFile completes last, the text written
\* alone, the appended text lost, when writeFile completes last.
C25_OrderDecidesContent ==
  /\ CompletedAfter("appendToFile", "writeFile")
       => /\ Flat(fs[writeFilePath].data) = writeFileText \o appendFileText
          /\ Flat(fs[writeFilePath].data) # writeFileText
  /\ CompletedAfter("writeFile", "appendToFile")
       => /\ Flat(fs[writeFilePath].data) = writeFileText
          /\ Len(last.pre[writeFilePath].data) >= 1

\* writeFile has completed last and the text appended before it is gone
C25_Witness ==
  /\ CompletedAfter("writeFile", "appendToFile")
  /\ last.pre[writeFilePath].data = <<appendFileText>>
  /\ fs[writeFilePath].data = <<writeFileText>>
  /\ InFlight = 0

\* C26 (as claimed): a non-blocking function that was started has its
\* completion callback run in the end, whatever its caller does next.
C26_StartedCompletes ==
  \A op \in AsyncOps :
    (pending[op] > 0) ~> (last.op = op /\ last.phase = "callback")

\* the functions that write, and those that read
WriteSide == {"writeFile", "writeFileAsync", "appendToFile", "appendFileSync",
              "deleteFileAsync", "deleteFileSync"}

ReadSide == {"fileReader", "fileReadAsync"}

LeavesReadFile ==
  /\ (last'.op \in WriteSide /\ ~last'.raced)
       => fs'[readFilePath] = fs[readFilePath]
  /\ (last'.op \in ReadSide /\ last'.out # "PENDING")
       => /\ fs' = fs
          /\ last'.out = "OK" => last'.data = Flat(fs[readFilePath].data)
          /\ last'.out = "OK" <=> fs[readFilePath].kind = "file"

\* C27: no call and no callback of writeFile, writeFileAsync, appendToFile,
\* appendFileSync, deleteFileAsync or deleteFileSync changes whether test.txt
\* exists or what it holds (what another process does between a guard and
\* its fs call set aside), so test.txt is after any sequence of them what it
\* was before; fileReader and fileReadAsync log the content of test.txt and
\* change nothing.
C27_ReadFileUntouched == [][LeavesReadFile]_vars

\* write.txt was written and then deleted, test.txt being there with its
\* content all along
C27_Witness ==
  /\ last.op = "deleteFileSync"
  /\ last.out = "OK"
  /\ ~last.raced
  /\ last.after = "writeFileAsync"
  /\ last.afterOut = "OK"
  /\ last.pre[writeFilePath].kind = "file"
  /\ fs[writeFilePath].kind = "none"
  /\ fs[readFilePath].kind = "file"
  /\ fs[readFilePath] = last.pre[readFilePath]

ListenerOnly ==
  (last'.op = "watchCallback")
    => /\ (last'.data # "") <=> watch.names
       /\ watch.names => last'.data = "File write.txt has " \o Head(watch.notes)
       /\ fs' = fs
       /\ pending' = pending
       /\ alive' = alive
       /\ watch'.state = watch.state
       /\ watch'.cancelled = watch.cancelled
       /\ watch'.names = watch.names

\* C28: the listener that watchFileChanged registers logs a notification
\* when, and only when, it comes with a file name; called without one it logs
\* nothing; called with or without, it leaves the tree, the calls in flight
\* and the watch as they are.
C28_ListenerReportsNamed == [][ListenerOnly]_vars

\* the listener was called without a file name, logged nothing, and the
\* watch goes on
C28_Witness ==
  /\ last.op = "watchCallback"
  /\ last.arg \in EventTypes
  /\ ~watch.names
  /\ last.data = ""
  /\ watch.state = "Watching"
  /\ fs = last.pre

\* the listener was called with a file name and logged it
C28_WitnessNamed ==
  /\ last.op = "watchCallback"
  /\ watch.names
  /\ last.data = "File write.txt has change"
  /\ watch.state = "Watching"

====
